---- MODULE Spec2Model ----
(***************************************************************************)
(* Model of gazebo's Simulator (server/Simulator.cc): the lifecycle calls  *)
(* Load / Init / MainLoop / Close / Fini, the render loop run by the       *)
(* primary thread inside MainLoop, the physics loop run by physicsThread,  *)
(* the two recursive mutexes and the control calls SetPaused, SetStepInc,  *)
(* SetUserQuit and SetTimeout.                                             *)
(*                                                                         *)
(* Time is counted in ticks of 1/freq second (one render period).  The     *)
(* wall clock saturates at MaxWall.  A local that the code overwrites      *)
(* before it reads it again is cleared where its last use ends.            *)
(***************************************************************************)
EXTENDS Integers, Sequences, FiniteSets, TLC

\* ---------------------------------------------------------------- bounds
MaxWall == 4        \* the wall clock saturates here
MaxIter == 2        \* physics-loop iterations that may start

\* ------------------------------------------------------ program constants
freq == 80                              \* MainLoop: double freq = 80.0
TicksPerSecond == 1 * freq
FramePeriod == TicksPerSecond \div freq \* 1.0/freq
DefaultSleep == 0                       \* req.tv_nsec = 10000: below one tick
NoTimeout == 0 - 1                      \* constructor: timeout(-1)

\* ----------------------------------------------------------------- inputs
WallAtStart == FramePeriod + 1     \* wall time at construction (an epoch time)
StepVals == {1}                    \* PhysicsEngine::GetStepTime(), ticks
RateVals == {0 - 1, freq}          \* PhysicsEngine::GetUpdateRate(), Hz
TimeoutVals == {0, 1}              \* arguments of SetTimeout, ticks
States == {"LOAD", "INIT", "RUN"}
Threads == {"main", "physics"}
Mutexes == {"MR", "MD"}            \* render_mutex, model_delete_mutex

VARIABLES
  state, loaded, gui, guiEnabled, renderEngineEnabled,  \* lifecycle fields
  calls,                \* the collaborator calls of the last lifecycle call
                        \* (Load, Init, Close, Fini), "throw" last when it
                        \* threw; empty after SetGuiEnabled and
                        \* SetRenderEngineEnabled and once MainLoop runs
  pause, stepInc, userQuit, timeout,                    \* control fields
  simTime, pauseTime, startTime,                        \* clock fields
  wall,                                                 \* the system clock
  mutex,                \* mutex[m] = [owner, count] of a recursive mutex
  pc, want, arg, ret,   \* per thread: position, locks still to take,
                        \* argument and return position of a control call
  wakeAt,               \* per thread: end of the running nanosleep
  step, physicsUpdateRate, userStepped, lastTime,       \* PhysicsLoop locals
  mLastTime, mCurrTime,                                 \* MainLoop locals
  worldMid, updates,    \* World: an Update is in progress; Updates completed
  ifaces,               \* World: UpdateSimulationIface calls completed
  pauseSignal,          \* what the pause observers have received: the last
                        \* value, and n = 0 for no delivery yet, then 1 after
                        \* an odd and 2 after an even number of deliveries
  iters,                \* physics iterations started
  hist                  \* history record used to state the properties

vars == <<state, loaded, gui, guiEnabled, renderEngineEnabled, calls, pause,
          stepInc,
          userQuit, timeout, simTime, pauseTime, startTime, wall, mutex, pc,
          want, arg, ret, wakeAt, step, physicsUpdateRate, userStepped,
          lastTime, mLastTime, mCurrTime, worldMid, updates, ifaces,
          pauseSignal, iters, hist>>

lifeVars == <<state, loaded, gui, guiEnabled, renderEngineEnabled, calls>>
physLocals == <<step, physicsUpdateRate, userStepped, lastTime>>
mainLocals == <<mLastTime, mCurrTime>>
worldVars == <<worldMid, updates, ifaces>>

\* ---------------------------------------------------------------- helpers
Min(a, b) == IF a < b THEN a ELSE b
Max(a, b) == IF a > b THEN a ELSE b

\* Simulator::GetWallTime, GetRealTime
GetWallTime == wall
GetRealTimeOfEpoch == GetWallTime         \* variant: startTime not subtracted
GetRealTime == GetWallTime - startTime

\* boost::recursive_mutex: free, or owned count times by one thread
Free == [owner |-> "none", count |-> 0]
CanLock(m, t) == mutex[m].count = 0 \/ mutex[m].owner = t
Locked(mx, m, t) == [mx EXCEPT ![m] = [owner |-> t, count |-> mx[m].count + 1]]
Unlocked(mx, m) ==
  [mx EXCEPT ![m] = IF mx[m].count = 1 THEN Free
                    ELSE [owner |-> mx[m].owner, count |-> mx[m].count - 1]]
\* scoped_lock destructors: the locks of a scope are released in reverse order
RECURSIVE ReleaseScope(_, _)
ReleaseScope(mx, locks) ==
  IF locks = <<>> THEN mx
  ELSE ReleaseScope(Unlocked(mx, locks[Len(locks)]), SubSeq(locks, 1, Len(locks) - 1))
Holds(t, m) == mutex[m].count > 0 /\ mutex[m].owner = t

\* The mutexes each scope takes, in the order of its scoped_lock declarations
SetPausedLocksReversed == <<"MD", "MR">>  \* variant: both mutexes, MD first
SetPausedUnlocked == <<>>                 \* variant: no scoped_lock
SetPausedLocks == <<"MR">>            \* SetPaused: GetMRMutex()
SetStepIncLocks == <<"MR">>           \* SetStepInc: GetMRMutex()
PhysicsLocksReversed == <<"MD", "MR">>    \* variant: MD taken first
PhysicsLocksNoMR == <<"MD">>              \* variant: MR not taken
PhysicsLocks == <<"MR", "MD">>        \* PhysicsLoop: GetMRMutex(), GetMDMutex()
ProcessEntitiesLocks == <<"MD">>      \* World::ProcessEntitiesTo*: GetMDMutex()

\* physicsUpdatePeriod = 1.0 / physicsUpdateRate (used only when rate > 0)
PhysicsUpdatePeriod(rate) == IF rate > 0 THEN TicksPerSecond \div rate ELSE 0

\* nanosleep(req): returns once at least req has passed; the saturated clock
\* stands for every later time
SleepUntil(req) == Min(wall + Max(req, 0), MaxWall)

\* boost::signal pauseSignal, as its observers see it
NoSignal == [last |-> FALSE, n |-> 0]
EmitNegated(sig, p) == [last |-> ~p, n |-> IF sig.n = 1 THEN 2 ELSE 1]
Emit(sig, p) == [last |-> p, n |-> IF sig.n = 1 THEN 2 ELSE 1]

\* positions of the primary thread inside MainLoop, and of physicsThread
MainLoopPcs == {"m_while", "m_gui", "m_loading", "m_deleting", "m_sleep",
                "m_join"}
CallPcs == {"SetPaused", "SetPaused_assign", "SetStepInc"}
InIteration == {"p_isPaused", "p_getStepInc", "p_userStepped", "p_update",
                "p_rate", "p_diff", "p_sleep", "p_iface",
                "p_timeout", "p_stepped"}

\* ------------------------------------------------------------------- Init
\* Simulator::Simulator.  `state' has no initializer: any value.
\* hist: sim0, pause0 = simTime, pauseTime when the current physics iteration
\* started; calm = the primary thread has changed neither pause nor stepInc
\* since; late = GetRealTime() > timeout held when it started; req = the
\* primary thread has called SetStepInc(true) and no decision of the loop
\* (line 651) has advanced simTime since, nor has it called SetStepInc(false)
NoHist == [calm |-> FALSE, sim0 |-> 0, pause0 |-> 0, late |-> FALSE,
           req |-> FALSE]

Init ==
  /\ state \in States \cup {"GARBAGE"}
  /\ loaded = FALSE /\ gui = FALSE
  /\ guiEnabled = TRUE /\ renderEngineEnabled = TRUE
  /\ calls = <<>>
  /\ pause = FALSE /\ stepInc = FALSE /\ userQuit = FALSE
  /\ timeout = NoTimeout
  /\ simTime = 0 /\ pauseTime = 0
  /\ wall = WallAtStart /\ startTime = wall
  /\ mutex = [m \in Mutexes |-> Free]
  /\ pc = [t \in Threads |-> IF t = "main" THEN "idle" ELSE "none"]
  /\ want = [t \in Threads |-> <<>>]
  /\ arg = [t \in Threads |-> FALSE]
  /\ ret = [t \in Threads |-> "idle"]
  /\ wakeAt = [t \in Threads |-> 0]
  /\ step = 0 /\ physicsUpdateRate = 0 /\ userStepped = FALSE
  /\ lastTime = 0
  /\ mLastTime = 0 /\ mCurrTime = 0
  /\ worldMid = FALSE /\ updates = 0 /\ ifaces = 0
  /\ pauseSignal = NoSignal
  /\ iters = 0
  /\ hist = NoHist

\* ------------------------------------------------- lifecycle (caller idle)
\* Simulator::Close: the teardown calls it makes, in order
CloseCallsWorldOnly == IF ~loaded THEN <<>> ELSE <<"World::Close">>  \* variant
CloseCalls == IF ~loaded THEN <<>>
              ELSE IF renderEngineEnabled THEN <<"World::Close", "OgreAdaptor::Close">>
              ELSE <<"World::Close">>

\* Simulator::Load.  failAt = 0: no collaborator throws; failAt = k: the k-th
\* step throws.  The steps and the collaborator call each one makes:
LoadSteps == 1..8
StepCallWorldFirst ==                     \* variant: World::Load comes third
  <<"XMLConfig::Load", "GazeboMessage::Load", "World::Load",
    "OgreAdaptor::Load", "Gui::Load", "OgreAdaptor::Init", "Gui::Init",
    "GazeboConfig::Load">>
StepCall ==
  <<"XMLConfig::Load", "GazeboMessage::Load", "GazeboConfig::Load",
    "OgreAdaptor::Load", "Gui::Load", "OgreAdaptor::Init", "Gui::Init",
    "World::Load">>

\* this->gui after the block `if (renderEngineEnabled && guiEnabled) ... else
\* gui = NULL': a Gui is created only when the file has a gui node
GuiAfterLoad(hasGuiNode, failAt) ==
  IF failAt \in 1..4 THEN gui
  ELSE IF renderEngineEnabled /\ guiEnabled
       THEN (IF hasGuiNode THEN TRUE ELSE gui)
       ELSE FALSE

\* the conditions under which Load performs step k
StepRuns(k, hasGuiNode) ==
  CASE k = 4 -> renderEngineEnabled
    [] k = 5 -> renderEngineEnabled /\ guiEnabled /\ hasGuiNode
    [] k = 6 -> renderEngineEnabled
    [] k = 7 -> GuiAfterLoad(hasGuiNode, 0)
    [] OTHER -> TRUE
CanFailAt(hasGuiNode, failAt) ==
  failAt = 0 \/ (failAt \in LoadSteps /\ StepRuns(failAt, hasGuiNode))

RECURSIVE LoadCallsFrom(_, _, _)
LoadCallsFrom(k, hasGuiNode, failAt) ==
  IF k > Len(StepCall) THEN <<>>
  ELSE IF ~StepRuns(k, hasGuiNode) THEN LoadCallsFrom(k + 1, hasGuiNode, failAt)
  ELSE IF k = failAt THEN <<StepCall[k], "throw">>
  ELSE <<StepCall[k]>> \o LoadCallsFrom(k + 1, hasGuiNode, failAt)

\* if (loaded) { Close(); loaded = false; } then the steps; loaded = true last
LoadedAfterFailure(failAt) == failAt = 0 \/ loaded  \* variant: no loaded = false
LoadedAfterLoad(failAt) == failAt = 0
Load(hasGuiNode, failAt) ==
  /\ pc["main"] = "idle"
  /\ CanFailAt(hasGuiNode, failAt)
  /\ state' = "LOAD"
  /\ loaded' = LoadedAfterLoad(failAt)
  /\ gui' = GuiAfterLoad(hasGuiNode, failAt)
  /\ calls' = CloseCalls \o LoadCallsFrom(1, hasGuiNode, failAt)
  /\ UNCHANGED <<guiEnabled, renderEngineEnabled, pause, stepInc, userQuit,
                 timeout, simTime, pauseTime, startTime, wall, mutex, pc, want,
                 arg, ret, wakeAt, physLocals, mainLocals, worldVars,
                 pauseSignal, iters, hist>>

\* Simulator::Close
Close ==
  /\ pc["main"] = "idle"
  /\ calls' = CloseCalls
  /\ UNCHANGED <<state, loaded, gui, guiEnabled, renderEngineEnabled, pause,
                 stepInc, userQuit, timeout, simTime, pauseTime, startTime,
                 wall, mutex, pc, want, arg, ret, wakeAt, physLocals,
                 mainLocals, worldVars, pauseSignal, iters, hist>>

\* Simulator::Fini: World::Fini, then Close
FiniCalls == <<"World::Fini">> \o CloseCalls
Fini ==
  /\ pc["main"] = "idle"
  /\ calls' = FiniCalls
  /\ UNCHANGED <<state, loaded, gui, guiEnabled, renderEngineEnabled, pause,
                 stepInc, userQuit, timeout, simTime, pauseTime, startTime,
                 wall, mutex, pc, want, arg, ret, wakeAt, physLocals,
                 mainLocals, worldVars, pauseSignal, iters, hist>>

\* Simulator::Init: the state is set first, then World::Init, which may throw
SimInit ==
  /\ pc["main"] = "idle"
  /\ state' = "INIT"
  /\ \E fails \in BOOLEAN :
       calls' = IF fails THEN <<"World::Init", "throw">> ELSE <<"World::Init">>
  /\ UNCHANGED <<loaded, gui, guiEnabled, renderEngineEnabled, pause, stepInc,
                 userQuit, timeout, simTime, pauseTime, startTime, wall, mutex,
                 pc, want, arg, ret, wakeAt, physLocals, mainLocals, worldVars,
                 pauseSignal, iters, hist>>

\* Simulator::SetGuiEnabled, SetRenderEngineEnabled
SetGuiEnabled(enabled) ==
  /\ pc["main"] = "idle"
  /\ guiEnabled' = enabled
  /\ calls' = <<>>
  /\ UNCHANGED <<state, loaded, gui, renderEngineEnabled, pause, stepInc,
                 userQuit, timeout, simTime, pauseTime, startTime, wall, mutex,
                 pc, want, arg, ret, wakeAt, physLocals, mainLocals, worldVars,
                 pauseSignal, iters, hist>>
SetRenderEngineEnabled(enabled) ==
  /\ pc["main"] = "idle"
  /\ renderEngineEnabled' = enabled
  /\ calls' = <<>>
  /\ UNCHANGED <<state, loaded, gui, guiEnabled, pause, stepInc,
                 userQuit, timeout, simTime, pauseTime, startTime, wall, mutex,
                 pc, want, arg, ret, wakeAt, physLocals, mainLocals, worldVars,
                 pauseSignal, iters, hist>>

\* Simulator::SetTimeout
SetTimeout(time) ==
  /\ pc["main"] = "idle"
  /\ timeout' = time
  /\ UNCHANGED <<lifeVars, pause, stepInc, userQuit, simTime, pauseTime,
                 startTime, wall, mutex, pc, want, arg, ret, wakeAt, physLocals,
                 mainLocals, worldVars, pauseSignal, iters, hist>>

\* Simulator::SetUserQuit: a plain store, from a GUI callback or a signal
\* handler, at any moment
SetUserQuit ==
  /\ userQuit' = TRUE
  /\ UNCHANGED <<lifeVars, pause, stepInc, timeout, simTime, pauseTime,
                 startTime, wall, mutex, pc, want, arg, ret, wakeAt, physLocals,
                 mainLocals, worldVars, pauseSignal, iters, hist>>

\* the system clock advances
Tick ==
  /\ wall < MaxWall
  /\ wall' = wall + 1
  /\ UNCHANGED <<lifeVars, pause, stepInc, userQuit, timeout, simTime,
                 pauseTime, startTime, mutex, pc, want, arg, ret, wakeAt,
                 physLocals, mainLocals, worldVars, pauseSignal, iters,
                 hist>>

\* ------------------------------------------------------- mutexes and calls
\* a scoped_lock constructor: blocks until the mutex is free or already ours
Acquire(t) ==
  /\ want[t] # <<>>
  /\ CanLock(Head(want[t]), t)
  /\ mutex' = Locked(mutex, Head(want[t]), t)
  /\ want' = [want EXCEPT ![t] = Tail(want[t])]
  /\ UNCHANGED <<lifeVars, pause, stepInc, userQuit, timeout, simTime,
                 pauseTime, startTime, wall, pc, arg, ret, wakeAt, physLocals,
                 mainLocals, worldVars, pauseSignal, iters, hist>>

\* the history record when the physics iteration is over
HistEnd == [NoHist EXCEPT !.req = hist.req]
HistAt(t, next) == IF t = "physics" /\ next = "p_while" THEN HistEnd ELSE hist

\* the flags after a store, as seen by the history record
Calm(t, p, s) == hist.calm /\ (t = "main" => (p = pause /\ s = stepInc))

\* Simulator::SetPaused, after its scoped_lock: the test, and the signal
SetPausedCheck(t) ==
  /\ pc[t] = "SetPaused" /\ want[t] = <<>>
  /\ IF pause = arg[t]
     THEN /\ mutex' = ReleaseScope(mutex, SetPausedLocks)
          /\ pc' = [pc EXCEPT ![t] = ret[t]]
          /\ hist' = HistAt(t, ret[t])
          /\ UNCHANGED pauseSignal
     ELSE /\ pauseSignal' = Emit(pauseSignal, arg[t])
          /\ pc' = [pc EXCEPT ![t] = "SetPaused_assign"]
          /\ UNCHANGED <<mutex, hist>>
  /\ UNCHANGED <<lifeVars, pause, stepInc, userQuit, timeout, simTime,
                 pauseTime, startTime, wall, want, arg, ret, wakeAt,
                 physLocals, mainLocals, worldVars, iters>>

\* Simulator::SetPaused: this->pause = p, and the return
SetPausedAssign(t) ==
  /\ pc[t] = "SetPaused_assign"
  /\ pause' = arg[t]
  /\ mutex' = ReleaseScope(mutex, SetPausedLocks)
  /\ pc' = [pc EXCEPT ![t] = ret[t]]
  /\ hist' = [HistAt(t, ret[t]) EXCEPT !.calm = @ /\ Calm(t, arg[t], stepInc)]
  /\ UNCHANGED <<lifeVars, stepInc, userQuit, timeout, simTime, pauseTime,
                 startTime, wall, want, arg, ret, wakeAt, physLocals,
                 mainLocals, worldVars, pauseSignal, iters>>

\* Simulator::SetStepInc, after its scoped_lock
SetStepIncAssign(t) ==
  /\ pc[t] = "SetStepInc" /\ want[t] = <<>>
  /\ stepInc' = arg[t]
  /\ mutex' = ReleaseScope(mutex, SetStepIncLocks)
  /\ pc' = [pc EXCEPT ![t] = ret[t]]
  /\ hist' = [hist EXCEPT !.calm = Calm(t, pause, arg[t]),
                          !.req = (t = "main" /\ arg[t])]
  /\ UNCHANGED <<lifeVars, pause, userQuit, timeout, simTime, pauseTime,
                 startTime, wall, want, arg, ret, wakeAt, physLocals,
                 mainLocals, worldVars, pauseSignal, iters>>

\* The primary thread calls SetPaused(p) or SetStepInc(p) from a GUI callback
\* inside Gui::Update, any number of times in a frame
CanCall == pc["main"] = "m_gui" /\ gui
CallControl(name, locks, p) ==
  /\ CanCall
  /\ pc' = [pc EXCEPT !["main"] = name]
  /\ arg' = [arg EXCEPT !["main"] = p]
  /\ ret' = [ret EXCEPT !["main"] = pc["main"]]
  /\ want' = [want EXCEPT !["main"] = locks]
  /\ UNCHANGED <<lifeVars, pause, stepInc, userQuit, timeout, simTime,
                 pauseTime, startTime, wall, mutex, wakeAt, physLocals,
                 mainLocals, worldVars, pauseSignal, iters, hist>>
CallSetPaused(p) == CallControl("SetPaused", SetPausedLocks, p)
CallSetStepInc(p) == CallControl("SetStepInc", SetStepIncLocks, p)

\* --------------------------------------------------- Simulator::MainLoop
\* state = RUN, the locals, and the start of physicsThread; userQuit is not
\* assigned, so a quit requested before the call still stands
QuitCleared == FALSE                      \* variant: userQuit = false
QuitKept == userQuit
MainLoopStart ==
  /\ pc["main"] = "idle"
  /\ state' = "RUN"
  /\ calls' = <<>>
  /\ mLastTime' = 0 /\ mCurrTime' = 0
  /\ pc' = [pc EXCEPT !["main"] = "m_while", !["physics"] = "p_init"]
  /\ userQuit' = QuitKept
  /\ UNCHANGED <<loaded, gui, guiEnabled, renderEngineEnabled, pause, stepInc,
                 timeout, simTime, pauseTime, startTime, wall, mutex,
                 want, arg, ret, wakeAt, physLocals, worldVars, pauseSignal,
                 iters, hist>>

\* while (!userQuit): currTime = GetWallTime(); a frame is due when
\* currTime - lastTime > 1.0/freq, otherwise sleep to the frame boundary
FrameDueAtLeast(curr, last) == curr - last >= FramePeriod  \* variant: >=
FrameDue(curr, last) == curr - last > FramePeriod
MainQuitIgnored == FALSE                  \* variant: while (true)
MainQuitSeen == userQuit
MainWhile ==
  /\ pc["main"] = "m_while"
  /\ IF MainQuitSeen
     THEN /\ pc' = [pc EXCEPT !["main"] = "m_join"]
          /\ UNCHANGED <<mLastTime, wakeAt>>
     ELSE IF FrameDue(GetWallTime, mLastTime)
     THEN /\ mLastTime' = GetWallTime
          /\ pc' = [pc EXCEPT !["main"] = "m_gui"]
          /\ UNCHANGED wakeAt
     ELSE /\ wakeAt' = [wakeAt EXCEPT !["main"] =
                          SleepUntil(FramePeriod - (GetWallTime - mLastTime))]
          /\ pc' = [pc EXCEPT !["main"] = "m_sleep"]
          /\ UNCHANGED mLastTime
  /\ UNCHANGED <<lifeVars, pause, stepInc, userQuit, timeout, simTime,
                 pauseTime, startTime, wall, mutex, want, arg, ret, physLocals,
                 mCurrTime, worldVars, pauseSignal, iters, hist>>

\* if (gui) gui->Update() returns after its callbacks; UpdateCameras and
\* GraphicsUpdate when rendering; currTime = GetWallTime();
\* World::ProcessEntitiesToLoad is entered and asks for its lock
MainGui ==
  /\ pc["main"] = "m_gui"
  /\ mCurrTime' = GetWallTime
  /\ pc' = [pc EXCEPT !["main"] = "m_loading"]
  /\ want' = [want EXCEPT !["main"] = ProcessEntitiesLocks]
  /\ UNCHANGED <<lifeVars, pause, stepInc, userQuit, timeout, simTime,
                 pauseTime, startTime, wall, mutex, arg, ret, wakeAt,
                 physLocals, mLastTime, worldVars, pauseSignal, iters,
                 hist>>

\* ProcessEntitiesToLoad returns; World::ProcessEntitiesToDelete is entered
\* and asks for its lock
MainLoadEnd ==
  /\ pc["main"] = "m_loading" /\ want["main"] = <<>>
  /\ mutex' = ReleaseScope(mutex, ProcessEntitiesLocks)
  /\ pc' = [pc EXCEPT !["main"] = "m_deleting"]
  /\ want' = [want EXCEPT !["main"] = ProcessEntitiesLocks]
  /\ UNCHANGED <<lifeVars, pause, stepInc, userQuit, timeout, simTime,
                 pauseTime, startTime, wall, arg, ret, wakeAt,
                 physLocals, mainLocals, worldVars, pauseSignal, iters,
                 hist>>

\* ProcessEntitiesToDelete returns; if (currTime - lastTime < 1/freq) sleep
\* for the rest of the frame period
MainDeleteEnd ==
  /\ pc["main"] = "m_deleting" /\ want["main"] = <<>>
  /\ mutex' = ReleaseScope(mutex, ProcessEntitiesLocks)
  /\ IF mCurrTime - mLastTime < FramePeriod
     THEN /\ wakeAt' = [wakeAt EXCEPT !["main"] =
                          SleepUntil(FramePeriod - (mCurrTime - mLastTime))]
          /\ pc' = [pc EXCEPT !["main"] = "m_sleep"]
     ELSE /\ pc' = [pc EXCEPT !["main"] = "m_while"]
          /\ UNCHANGED wakeAt
  /\ mCurrTime' = 0
  /\ UNCHANGED <<lifeVars, pause, stepInc, userQuit, timeout, simTime,
                 pauseTime, startTime, wall, want, arg, ret, physLocals,
                 mLastTime, worldVars, pauseSignal, iters, hist>>

\* nanosleep returns
Wake(t, next) ==
  /\ wall' = Max(wall, wakeAt[t])
  /\ wakeAt' = [wakeAt EXCEPT ![t] = 0]
  /\ pc' = [pc EXCEPT ![t] = next]
  /\ UNCHANGED <<lifeVars, pause, stepInc, userQuit, timeout, simTime,
                 pauseTime, startTime, mutex, want, arg, ret,
                 physLocals, mainLocals, worldVars, pauseSignal, iters,
                 hist>>
MainWake == pc["main"] = "m_sleep" /\ Wake("main", "m_while")

\* physicsThread->join(): returns once PhysicsLoop has returned
JoinedAtOnce == TRUE                      \* variant: join does not wait
Joined == pc["physics"] = "done"
MainJoin ==
  /\ pc["main"] = "m_join"
  /\ Joined
  /\ pc' = [pc EXCEPT !["main"] = "idle"]
  /\ UNCHANGED <<lifeVars, pause, stepInc, userQuit, timeout, simTime,
                 pauseTime, startTime, wall, mutex, want, arg, ret, wakeAt,
                 physLocals, mainLocals, worldVars, pauseSignal, iters,
                 hist>>

\* ------------------------------------------------ Simulator::PhysicsLoop
\* InitForThread, step, physicsUpdateRate (lastTime is set again before use)
PhysInit ==
  /\ pc["physics"] = "p_init"
  /\ step' \in StepVals
  /\ physicsUpdateRate' \in RateVals
  /\ lastTime' = 0
  /\ pc' = [pc EXCEPT !["physics"] = "p_while"]
  /\ UNCHANGED <<lifeVars, pause, stepInc, userQuit, timeout, simTime,
                 pauseTime, startTime, wall, mutex, want, arg, ret, wakeAt,
                 userStepped, mainLocals, worldVars, pauseSignal, iters,
                 hist>>

\* while (!this->userQuit) ... userStepped = false
PhysQuitIgnored == FALSE                  \* variant: while (true)
PhysQuitSeen == userQuit
PhysWhile ==
  /\ pc["physics"] = "p_while"
  /\ IF PhysQuitSeen
     THEN /\ pc' = [pc EXCEPT !["physics"] = "done"]
          /\ UNCHANGED <<userStepped, iters, hist>>
     ELSE /\ iters < MaxIter
          /\ iters' = iters + 1
          /\ userStepped' = FALSE
          /\ pc' = [pc EXCEPT !["physics"] = "p_isPaused"]
          /\ hist' = [calm |-> TRUE, sim0 |-> simTime,
                       pause0 |-> pauseTime, late |-> GetRealTime > timeout,
                       req |-> hist.req]
  /\ UNCHANGED <<lifeVars, pause, stepInc, userQuit, timeout, simTime,
                 pauseTime, startTime, wall, mutex, want, arg, ret, wakeAt,
                 step, physicsUpdateRate, lastTime, mainLocals, worldVars,
                 pauseSignal>>

\* this->simTime += step
SimRewind == simTime - step               \* variant: -= step
SimAdvance == simTime + step

\* if (!this->IsPaused() || ...): not paused, simTime += step
PhysIsPaused ==
  /\ pc["physics"] = "p_isPaused"
  /\ IF ~pause
     THEN /\ simTime' = SimAdvance
          /\ pc' = [pc EXCEPT !["physics"] = "p_userStepped"]
     ELSE /\ pc' = [pc EXCEPT !["physics"] = "p_getStepInc"]
          /\ UNCHANGED simTime
  /\ hist' = [hist EXCEPT !.req = @ /\ pause]
  /\ UNCHANGED <<lifeVars, pause, stepInc, userQuit, timeout, pauseTime,
                 startTime, wall, mutex, want, arg, ret, wakeAt, physLocals,
                 mainLocals, worldVars, pauseSignal, iters>>

\* lastTime = GetRealTime(); the update block is entered and asks for the
\* locks of its two scoped_locks
EnterUpdate ==
  /\ lastTime' = GetRealTime
  /\ want' = [want EXCEPT !["physics"] = PhysicsLocks]
  /\ pc' = [pc EXCEPT !["physics"] = "p_update"]

\* else this->pauseTime += step: the clocks after it
PausedAdvanceBoth == [sim |-> simTime + step, pause |-> pauseTime + step]
PausedAdvanceNone == [sim |-> simTime, pause |-> pauseTime]
PausedAdvance == [sim |-> simTime, pause |-> pauseTime + step]

\* (... || this->GetStepInc()): simTime += step, else pauseTime += step
PhysGetStepInc ==
  /\ pc["physics"] = "p_getStepInc"
  /\ IF stepInc
     THEN /\ simTime' = SimAdvance
          /\ pc' = [pc EXCEPT !["physics"] = "p_userStepped"]
          /\ UNCHANGED <<pauseTime, lastTime, want>>
     ELSE /\ pauseTime' = PausedAdvance.pause
          /\ simTime' = PausedAdvance.sim
          /\ EnterUpdate
  /\ hist' = [hist EXCEPT !.req = @ /\ ~stepInc]
  /\ UNCHANGED <<lifeVars, pause, stepInc, userQuit, timeout, startTime, wall,
                 mutex, arg, ret, wakeAt, step, physicsUpdateRate, userStepped,
                 mainLocals, worldVars, pauseSignal, iters>>

\* if (this->GetStepInc()) userStepped = true
PhysUserStepped ==
  /\ pc["physics"] = "p_userStepped"
  /\ userStepped' = stepInc
  /\ EnterUpdate
  /\ UNCHANGED <<lifeVars, pause, stepInc, userQuit, timeout, simTime,
                 pauseTime, startTime, wall, mutex, arg, ret, wakeAt,
                 step, physicsUpdateRate, mainLocals, worldVars,
                 pauseSignal, iters, hist>>

\* world->Update() starts, with the locks of the block taken
PhysUpdateBegin ==
  /\ pc["physics"] = "p_update" /\ want["physics"] = <<>>
  /\ ~worldMid
  /\ worldMid' = TRUE
  /\ UNCHANGED <<lifeVars, pause, stepInc, userQuit, timeout, simTime,
                 pauseTime, startTime, wall, mutex, pc, want, arg, ret, wakeAt,
                 physLocals, mainLocals, updates, ifaces, pauseSignal, iters,
                 hist>>

\* world->Update() returns and the block ends
PhysUpdateEnd ==
  /\ pc["physics"] = "p_update"
  /\ worldMid
  /\ worldMid' = FALSE
  /\ updates' = updates + 1
  /\ mutex' = ReleaseScope(mutex, PhysicsLocks)
  /\ pc' = [pc EXCEPT !["physics"] = "p_rate"]
  /\ UNCHANGED <<lifeVars, pause, stepInc, userQuit, timeout, simTime,
                 pauseTime, startTime, wall, want, arg, ret, wakeAt,
                 physLocals, mainLocals, ifaces, pauseSignal, iters, hist>>

\* currTime = GetRealTime(); the choice of req
PhysRate ==
  /\ pc["physics"] = "p_rate"
  /\ LET curr == GetRealTime
         period == PhysicsUpdatePeriod(physicsUpdateRate)
     IN IF physicsUpdateRate < 0 /\ simTime + pauseTime > GetRealTime
        THEN /\ pc' = [pc EXCEPT !["physics"] = "p_diff"]
             /\ UNCHANGED wakeAt
        ELSE /\ pc' = [pc EXCEPT !["physics"] = "p_sleep"]
             /\ wakeAt' = [wakeAt EXCEPT !["physics"] =
                  IF physicsUpdateRate > 0 /\ curr - lastTime < period
                  THEN SleepUntil(period - (curr - lastTime))
                  ELSE SleepUntil(DefaultSleep)]
  /\ lastTime' = 0
  /\ UNCHANGED <<lifeVars, pause, stepInc, userQuit, timeout, simTime,
                 pauseTime, startTime, wall, mutex, want, arg, ret, step,
                 physicsUpdateRate, userStepped, mainLocals, worldVars, pauseSignal, iters,
                 hist>>

\* diffTime = (simTime + pauseTime) - GetRealTime(), read again
DiffTimeShort == (simTime + pauseTime) - GetRealTime - 1  \* variant: a tick less
DiffTime == (simTime + pauseTime) - GetRealTime
PhysDiff ==
  /\ pc["physics"] = "p_diff"
  /\ wakeAt' = [wakeAt EXCEPT !["physics"] = SleepUntil(DiffTime)]
  /\ pc' = [pc EXCEPT !["physics"] = "p_sleep"]
  /\ UNCHANGED <<lifeVars, pause, stepInc, userQuit, timeout, simTime,
                 pauseTime, startTime, wall, mutex, want, arg, ret,
                 physLocals, mainLocals, worldVars, pauseSignal, iters,
                 hist>>

PhysWake == pc["physics"] = "p_sleep" /\ Wake("physics", "p_iface")

\* world->UpdateSimulationIface()
IfaceSkipped == ifaces                    \* variant: the call is left out
IfaceDone == ifaces + 1
PhysIface ==
  /\ pc["physics"] = "p_iface"
  /\ ifaces' = IfaceDone
  /\ pc' = [pc EXCEPT !["physics"] = "p_timeout"]
  /\ UNCHANGED <<lifeVars, pause, stepInc, userQuit, timeout, simTime,
                 pauseTime, startTime, wall, mutex, want, arg, ret, wakeAt,
                 physLocals, mainLocals, worldMid, updates, pauseSignal, iters,
                 hist>>

\* if (timeout > 0 && GetRealTime() > timeout) { userQuit = true; break; }
\* if (userStepped) { SetStepInc(false); ...
TimedOutEarly == timeout > 0 /\ GetRealTime >= timeout   \* variant: >=
TimedOut == timeout > 0 /\ GetRealTime > timeout
PhysTimeout ==
  /\ pc["physics"] = "p_timeout"
  /\ IF TimedOut
     THEN /\ userQuit' = TRUE
          /\ pc' = [pc EXCEPT !["physics"] = "done"]
          /\ hist' = HistEnd
          /\ UNCHANGED <<arg, ret, want>>
     ELSE IF userStepped
     THEN /\ pc' = [pc EXCEPT !["physics"] = "SetStepInc"]
          /\ arg' = [arg EXCEPT !["physics"] = FALSE]
          /\ ret' = [ret EXCEPT !["physics"] = "p_stepped"]
          /\ want' = [want EXCEPT !["physics"] = SetStepIncLocks]
          /\ UNCHANGED <<userQuit, hist>>
     ELSE /\ pc' = [pc EXCEPT !["physics"] = "p_while"]
          /\ hist' = HistEnd
          /\ UNCHANGED <<userQuit, arg, ret, want>>
  /\ UNCHANGED <<lifeVars, pause, stepInc, timeout, simTime, pauseTime,
                 startTime, wall, mutex, wakeAt, physLocals, mainLocals,
                 worldVars, pauseSignal, iters>>

\* ... this->SetPaused(true); }
PhysStepped ==
  /\ pc["physics"] = "p_stepped"
  /\ pc' = [pc EXCEPT !["physics"] = "SetPaused"]
  /\ arg' = [arg EXCEPT !["physics"] = TRUE]
  /\ ret' = [ret EXCEPT !["physics"] = "p_while"]
  /\ want' = [want EXCEPT !["physics"] = SetPausedLocks]
  /\ UNCHANGED <<lifeVars, pause, stepInc, userQuit, timeout, simTime,
                 pauseTime, startTime, wall, mutex, wakeAt, physLocals,
                 mainLocals, worldVars, pauseSignal, iters, hist>>

\* ------------------------------------------------------------------- Next
MainNext ==
  \/ Load(TRUE, 0)
  \/ SimInit
  \/ \E T \in TimeoutVals : SetTimeout(T)
  \/ \E p \in BOOLEAN : CallSetPaused(p)
  \/ \E p \in BOOLEAN : CallSetStepInc(p)
  \/ Acquire("main")
  \/ SetPausedCheck("main")
  \/ SetPausedAssign("main")
  \/ SetStepIncAssign("main")
  \/ MainLoopStart
  \/ MainWhile
  \/ MainGui
  \/ MainLoadEnd
  \/ MainDeleteEnd
  \/ MainWake
  \/ MainJoin

PhysNext ==
  \/ PhysInit
  \/ PhysWhile
  \/ PhysIsPaused
  \/ PhysGetStepInc
  \/ PhysUserStepped
  \/ Acquire("physics")
  \/ PhysUpdateBegin
  \/ PhysUpdateEnd
  \/ PhysRate
  \/ PhysDiff
  \/ PhysWake
  \/ PhysIface
  \/ PhysTimeout
  \/ SetStepIncAssign("physics")
  \/ PhysStepped
  \/ SetPausedCheck("physics")
  \/ SetPausedAssign("physics")

Next == MainNext \/ PhysNext \/ SetUserQuit \/ Tick

Spec == Init /\ [][Next]_vars

\* the program when nobody calls SetUserQuit
NextNoQuit == MainNext \/ PhysNext \/ Tick
SpecNoQuit == Init /\ [][NextNoQuit]_vars

\* The lifecycle calls alone, with every configuration file and every
\* collaborator failure: Load, Init, Close, Fini and the two enable setters
LifeNext ==
  \/ \E hasGuiNode \in BOOLEAN, failAt \in {0} \cup LoadSteps :
       Load(hasGuiNode, failAt)
  \/ SimInit
  \/ Close
  \/ Fini
  \/ \E enabled \in BOOLEAN : SetGuiEnabled(enabled)
  \/ \E enabled \in BOOLEAN : SetRenderEngineEnabled(enabled)
LifeSpec == Init /\ [][LifeNext]_vars

\* the steps of the primary thread inside MainLoop
MainRunNext ==
  \/ \E p \in BOOLEAN : CallSetPaused(p)
  \/ \E p \in BOOLEAN : CallSetStepInc(p)
  \/ Acquire("main")
  \/ SetPausedCheck("main")
  \/ SetPausedAssign("main")
  \/ SetStepIncAssign("main")
  \/ MainWhile
  \/ MainGui
  \/ MainLoadEnd
  \/ MainDeleteEnd
  \/ MainWake
  \/ MainJoin

\* The program with the clock read only where a thread sleeps: the time a
\* computation step takes is folded into the sleep that follows it
LiveNext == MainNext \/ PhysNext \/ SetUserQuit

\* Both threads are scheduled, and every collaborator call and sleep returns:
\* in particular Gui::Update returns, however many callbacks it runs
LiveSpec ==
  /\ Init
  /\ [][LiveNext]_vars
  /\ WF_vars(PhysNext)
  /\ WF_vars(MainRunNext)
  /\ SF_vars(MainGui)

\* ============================================================ properties
Phys == pc["physics"]
PhysMoves == pc'["physics"] # pc["physics"]
\* the step in which physicsThread ends an iteration
PhysLeaves == /\ Phys \in InIteration \cup CallPcs
              /\ pc'["physics"] \in {"p_while", "done"}

\* C1 -- Single-step contract: an iteration that starts paused with a step
\* requested, and during which the primary thread changes neither flag,
\* advances simTime by exactly one physics step and ends with pause = TRUE
\* and stepInc = FALSE.
C1_SingleStep ==
  [][(PhysLeaves /\ hist.calm /\ pause /\ userStepped)
       => (simTime' = hist.sim0 + step /\ pause' /\ ~stepInc')]_vars

\* C2 -- While paused with no step requested (and the primary thread changing
\* neither flag), an iteration leaves simTime as it was at its start and
\* advances pauseTime by exactly one physics step.
BeforeDecision == {"p_isPaused", "p_getStepInc"}
BeforeFlagStores == InIteration \ {"p_stepped"}  \* physicsThread stores later
C2_PausedIteration ==
  (Phys \in BeforeFlagStores /\ hist.calm /\ pause /\ ~stepInc)
    => /\ simTime = hist.sim0
       /\ pauseTime = IF Phys \in BeforeDecision THEN hist.pause0
                      ELSE hist.pause0 + step
\* two paused iterations in a row have each advanced pauseTime, never simTime
C2_Witness ==
  /\ Phys = "p_timeout" /\ hist.calm /\ pause /\ ~stepInc
  /\ iters = 2 /\ simTime = 0 /\ pauseTime = step + step

\* C3 -- Timeout contract, as claimed: with no SetUserQuit call and
\* SetTimeout(T) called, for any T, userQuit is set only while
\* GetRealTime() > T, and every timeout check made when the iteration
\* started with GetRealTime() > T, or made with GetRealTime() > T, sets
\* userQuit and leaves the loop.
C3_AnyTimeout ==
  [][/\ (userQuit' /\ ~userQuit)
          => (timeout # NoTimeout /\ GetRealTime > timeout)
     /\ (Phys = "p_timeout" /\ PhysMoves /\ timeout # NoTimeout
           /\ (hist.late \/ GetRealTime > timeout))
          => (userQuit' /\ pc'["physics"] = "done")]_vars

\* C3 (amended) -- with no SetUserQuit call and a timeout T > 0: userQuit is
\* set only while GetRealTime() > T, and every timeout check made when the
\* iteration started with GetRealTime() > T, or made with GetRealTime() > T,
\* sets userQuit and leaves the loop; so the loop ends at most one iteration
\* after real time first exceeds T.
C3_PositiveTimeout ==
  [][/\ (userQuit' /\ ~userQuit) => (timeout > 0 /\ GetRealTime > timeout)
     /\ (Phys = "p_timeout" /\ PhysMoves /\ timeout > 0
           /\ (hist.late \/ GetRealTime > timeout))
          => (userQuit' /\ pc'["physics"] = "done")]_vars
\* the loop has run an iteration that started in time and has quit by timeout
C3_Witness ==
  /\ Phys = "done" /\ userQuit /\ timeout > 0 /\ GetRealTime > timeout
  /\ updates >= 1

\* C4 -- A single step always re-pauses: an iteration that saw stepInc set
\* (userStepped), paused or not, and during which the primary thread changes
\* neither flag, has advanced simTime by exactly one step and ends with
\* stepInc = FALSE and pause = TRUE.
C4_StepRepauses ==
  [][(PhysLeaves /\ hist.calm /\ userStepped)
       => (simTime' = hist.sim0 + step /\ ~stepInc' /\ pause')]_vars

\* C5 -- physicsThread takes render_mutex and then model_delete_mutex before
\* World::Update and releases both right after it: it holds both while the
\* Update runs, never model_delete_mutex without render_mutex inside the
\* update block, and neither of them while it computes its sleep, sleeps,
\* checks the timeout or quit, or has left the loop.
Unlocked5 == {"p_init", "p_while", "p_isPaused", "p_getStepInc",
              "p_userStepped", "p_rate", "p_diff", "p_sleep", "p_iface",
              "p_timeout", "p_stepped", "done"}
C5_LockScope ==
  /\ (Phys = "p_update" /\ want["physics"] = <<>>)
       => (Holds("physics", "MR") /\ Holds("physics", "MD"))
  /\ (Phys = "p_update" /\ Holds("physics", "MD")) => Holds("physics", "MR")
  /\ Phys \in Unlocked5
       => (~Holds("physics", "MR") /\ ~Holds("physics", "MD"))
\* physicsThread sleeps after an Update while the primary thread, inside
\* SetPaused, holds the mutex the Update had held
C5_Witness ==
  /\ Phys = "p_sleep" /\ updates >= 1 /\ wakeAt["physics"] > wall
  /\ pc["main"] = "SetPaused_assign" /\ Holds("main", "MR")

\* C6 -- No deadlock between the two loops: never does each thread wait for a
\* mutex the other one holds.
Waiting(t) == want[t] # <<>> /\ ~CanLock(Head(want[t]), t)
WaitsFor(t, u) == Waiting(t) /\ mutex[Head(want[t])].owner = u
C6_NoDeadlock == ~(WaitsFor("main", "physics") /\ WaitsFor("physics", "main"))
\* the contention happens: physicsThread, ending a stepped iteration, waits
\* in SetStepInc for the mutex the primary thread holds inside SetPaused
C6_Witness ==
  /\ WaitsFor("physics", "main") /\ Phys = "SetStepInc"
  /\ pc["main"] = "SetPaused_assign"

\* C7 -- Locking invariant: a thread other than physicsThread that holds
\* render_mutex or model_delete_mutex never sees the world in the middle of
\* an Update; the world it sees is the result of whole Updates.
C7_UpdateExclusive ==
  /\ \A m \in Mutexes : Holds("main", m) => ~worldMid
  /\ worldMid => Phys = "p_update"
\* the primary thread is inside SetPaused under render_mutex while
\* physicsThread, between two Updates, waits for that mutex
C7_Witness ==
  /\ Holds("main", "MR") /\ pc["main"] = "SetPaused_assign" /\ updates >= 1
  /\ WaitsFor("physics", "main") /\ Phys = "p_update"

\* C8 -- Shutdown ordering: MainLoop returns only after the render loop has
\* seen userQuit and PhysicsLoop has returned; the primary thread is never
\* outside MainLoop while physicsThread is still running.
C8_JoinBeforeReturn ==
  /\ pc["main"] = "idle" => Phys \in {"none", "done"}
  /\ pc["main"] = "m_join" => userQuit
  /\ (pc["main"] = "idle" /\ Phys = "done") => userQuit
\* MainLoop has returned after the physics loop ran and was told to quit
C8_Witness == pc["main"] = "idle" /\ Phys = "done" /\ updates >= 1

\* C9 -- Cooperative cancellation terminates: once userQuit is set during
\* MainLoop, both loops exit and MainLoop returns.
InMainLoop == pc["main"] \in MainLoopPcs \cup CallPcs
C9_QuitTerminates ==
  (userQuit /\ InMainLoop) ~> (pc["main"] = "idle" /\ Phys = "done")
\* MainLoop has returned after SetUserQuit (no timeout is configured) stopped
\* a physics loop that had started an iteration
C9_Witness ==
  /\ pc["main"] = "idle" /\ Phys = "done" /\ userQuit
  /\ timeout = NoTimeout /\ iters >= 1

\* C10 -- SetPaused(p): when pause = p nothing changes and nobody is notified;
\* otherwise the observers are notified once, with p, and pause becomes p; no
\* other control state (stepInc, userQuit, simTime, pauseTime) is touched.
\* Between the notification and the store no other call changes pause.
InSetPaused(t) == pc[t] \in {"SetPaused", "SetPaused_assign"}
C10_SetPaused ==
  /\ [](\A t \in Threads :
          pc[t] = "SetPaused_assign"
            => /\ pause # arg[t]
               /\ pauseSignal.n > 0 /\ pauseSignal.last = arg[t])
  /\ [][\A t \in Threads :
          /\ (InSetPaused(t) /\ pc'[t] # pc[t])
               => UNCHANGED <<stepInc, userQuit, simTime, pauseTime, timeout>>
          /\ (pc[t] = "SetPaused" /\ pc'[t] # pc[t] /\ pause = arg[t])
               => (pc'[t] = ret[t] /\ UNCHANGED <<pause, pauseSignal>>)
          /\ (pc[t] = "SetPaused" /\ pc'[t] # pc[t] /\ pause # arg[t])
               => /\ pauseSignal' = Emit(pauseSignal, arg[t])
                  /\ pause' = pause
                  /\ pc'[t] = "SetPaused_assign"
          /\ (pc[t] = "SetPaused_assign" /\ pc'[t] # pc[t])
               => /\ pause' = arg[t]
                  /\ pauseSignal' = pauseSignal
                  /\ pc'[t] = ret[t]]_vars
\* both kinds of call have happened: the primary thread is back from an
\* unpausing SetPaused(false) after the observers had been told TRUE before
C10_Witness ==
  /\ pc["main"] = "m_gui" /\ ~pause
  /\ pauseSignal = [last |-> FALSE, n |-> 2]

\* ------------------------------------------------------ lifecycle claims
\* reading the call log
Has(seq, c) == \E i \in 1..Len(seq) : seq[i] = c
Last(seq) == seq[Len(seq)]
Threw(seq) == seq # <<>> /\ Last(seq) = "throw"
Teardown == {"World::Close", "OgreAdaptor::Close", "World::Fini"}
\* the step is a call of Load: only Load calls XMLConfig::Load
LoadCalled == Has(calls', "XMLConfig::Load")
\* the calls Load makes after its Close
AfterClose(seq) ==
  SubSeq(seq, (CHOOSE i \in 1..Len(seq) : seq[i] = "XMLConfig::Load"), Len(seq))

\* C11 -- Load is re-enterable: a Load of a loaded simulator first performs
\* Close (World::Close, and OgreAdaptor::Close when rendering is enabled)
\* before any collaborator is loaded; an unloaded one performs no Close; every
\* Load sets state = LOAD; a Load that returns without throwing leaves
\* loaded = TRUE.
C11_Reload ==
  [][LoadCalled =>
       /\ state' = "LOAD"
       /\ loaded =>
            /\ calls'[1] = "World::Close"
            /\ calls'[2] = IF renderEngineEnabled THEN "OgreAdaptor::Close"
                                                  ELSE "XMLConfig::Load"
       /\ ~loaded => calls'[1] = "XMLConfig::Load"
       /\ \A c \in Teardown : ~Has(AfterClose(calls'), c)
       /\ ~Threw(calls') => loaded']_vars
\* a reload with rendering and a GUI has completed
C11_Witness ==
  /\ loaded /\ state = "LOAD" /\ gui
  /\ calls = <<"World::Close", "OgreAdaptor::Close">> \o StepCall

\* C12 -- Load order, as claimed: messaging, then render backend, then GUI,
\* then world; no call on a later collaborator is made before the last call
\* on an earlier one.
C12_ClaimedOrder ==
  [][LET Rank(c) ==
          CASE c = "GazeboMessage::Load" -> 1
            [] c \in {"OgreAdaptor::Load", "OgreAdaptor::Init"} -> 2
            [] c \in {"Gui::Load", "Gui::Init"} -> 3
            [] c = "World::Load" -> 4
            [] OTHER -> 0
    IN LoadCalled =>
          \A i, j \in 1..Len(calls') :
            (i < j /\ Rank(calls'[i]) > 0 /\ Rank(calls'[j]) > 0)
              => Rank(calls'[i]) <= Rank(calls'[j])]_vars

\* C12 (amended) -- the calls of one Load are made in the order: messaging
\* Load, render backend Load, GUI creation and Load, render backend Init,
\* GUI Init, world Load, each at most once; the render backend is initialised
\* after the GUI is loaded, and the world is loaded last.
C12_LoadOrder ==
  [][LET Rank(c) ==
          CASE c = "GazeboMessage::Load" -> 1
            [] c = "OgreAdaptor::Load" -> 2
            [] c = "Gui::Load" -> 3
            [] c = "OgreAdaptor::Init" -> 4
            [] c = "Gui::Init" -> 5
            [] c = "World::Load" -> 6
            [] OTHER -> 0
    IN LoadCalled =>
          \A i, j \in 1..Len(calls') :
            (i < j /\ Rank(calls'[i]) > 0 /\ Rank(calls'[j]) > 0)
              => Rank(calls'[i]) < Rank(calls'[j])]_vars
\* a first Load with rendering and a GUI has made all six calls
C12_Witness ==
  /\ calls = StepCall /\ gui /\ renderEngineEnabled /\ guiEnabled /\ loaded

\* C13 -- A failure at any step of Load reaches the caller as an exception,
\* the failing call is the last collaborator call Load makes, and the
\* simulator is left not loaded, also when it was loaded before, so that a
\* following Close makes no teardown call.
C13_FailedLoad ==
  [][(LoadCalled /\ Threw(calls')) =>
       /\ ~loaded'
       /\ CloseCalls' = <<>>
       /\ \A i \in 1..Len(calls') : calls'[i] = "throw" => i = Len(calls')
       /\ Has(calls', "World::Load")
            => calls'[Len(calls') - 1] = "World::Load"]_vars
\* a reload of a loaded simulator has failed at OgreAdaptor::Init
C13_Witness ==
  /\ ~loaded
  /\ Has(calls, "World::Close") /\ Threw(calls)
  /\ calls[Len(calls) - 1] = "OgreAdaptor::Init"

\* C14 -- Close and Fini are no-ops while the simulator is not loaded: they
\* make no teardown call on the world or the render backend.
C14_NoTeardown ==
  [][(~loaded /\ ~LoadCalled) => \A c \in Teardown : ~Has(calls', c)]_vars

\* C15 -- The lifecycle state is always one of LOAD, INIT, RUN and moves only
\* forward (LOAD to INIT to RUN), except for the re-entry into LOAD by Load.
C15_Lifecycle ==
  /\ [](state \in States)
  /\ [][state' # state =>
          \/ state' = "LOAD"
          \/ state = "LOAD" /\ state' = "INIT"
          \/ state = "INIT" /\ state' = "RUN"]_vars

\* ------------------------------------------------------------ clock claims
\* C16 -- simTime never decreases, over any physics iteration and any call of
\* SetPaused, SetStepInc, SetUserQuit, SetTimeout, Load, Init and MainLoop.
C16_SimTimeMonotone == [][simTime' >= simTime]_vars
\* simTime has advanced twice and the loop was then paused by a control call
C16_Witness ==
  /\ simTime = step + step /\ step > 0 /\ pause /\ pauseSignal.n > 0

\* C17 -- GetRealTime() is GetWallTime() - startTime in every state, and
\* startTime, set at construction, is changed by no operation.
C17_RealTime ==
  /\ [](GetRealTime = wall - startTime)
  /\ [][startTime' = startTime]_vars
\* MainLoop has run and returned and the simulator was loaded again, with
\* real time having passed
C17_Witness ==
  /\ state = "LOAD" /\ Phys = "done" /\ updates >= 1
  /\ GetRealTime > 0 /\ startTime = WallAtStart

\* C18 -- stepInc is true only transiently: an iteration in which a step
\* request triggered the advance (userStepped), and during which the primary
\* thread changes neither flag, ends with stepInc = FALSE, also when it ends
\* by the timeout.
C18_StepCleared ==
  [][(PhysLeaves /\ hist.calm /\ userStepped) => ~stepInc']_vars

\* C19 -- Control calls cannot race with the reading of the flags: while
\* physicsThread is between its read of pause and its reads of stepInc
\* (the test of line 651 and the test of line 655), no store to pause or
\* stepInc takes effect.
BetweenReads == {"p_getStepInc", "p_userStepped"}
C19_NoRaceBetweenReads ==
  [][(Phys \in BetweenReads) => (pause' = pause /\ stepInc' = stepInc)]_vars

\* C20 -- Each iteration advances exactly one of the two clocks by exactly
\* one step: neither before its decision, and after it either simTime or
\* pauseTime; with the primary thread changing neither flag, it is simTime
\* exactly when the simulation is not paused or a step is requested.
C20_OneClock ==
  /\ Phys \in BeforeDecision
       => (simTime = hist.sim0 /\ pauseTime = hist.pause0)
  /\ Phys \in (InIteration \cup CallPcs) \ BeforeDecision
       => \/ simTime = hist.sim0 + step /\ pauseTime = hist.pause0
          \/ simTime = hist.sim0 /\ pauseTime = hist.pause0 + step
  /\ (Phys \in BeforeFlagStores \ BeforeDecision /\ hist.calm)
       => ((~pause \/ stepInc) <=> simTime = hist.sim0 + step)
\* an unpaused iteration and then a paused one have each advanced one clock
C20_Witness ==
  /\ Phys = "p_timeout" /\ hist.calm /\ pause /\ ~stepInc /\ iters = 2
  /\ simTime = step /\ pauseTime = step /\ hist.sim0 = step

\* ------------------------------------------------------------ loop claims
\* C21 -- Real-time matching: with a negative update rate, and with no
\* SetUserQuit call, simTime + pauseTime is at most GetRealTime() whenever an
\* iteration starts, and inside an iteration it exceeds GetRealTime() by at
\* most one physics step.
C21_RealTimeMatch ==
  /\ (physicsUpdateRate < 0 /\ Phys = "p_isPaused")
       => simTime + pauseTime <= GetRealTime
  /\ (physicsUpdateRate < 0 /\ Phys \in InIteration \cup CallPcs)
       => simTime + pauseTime <= GetRealTime + step
\* the second iteration starts right when the sleep of the first one ended:
\* the clocks had run one step ahead and the sleep made up for it
C21_Witness ==
  /\ physicsUpdateRate < 0 /\ Phys = "p_isPaused" /\ iters = 2
  /\ simTime + pauseTime = step /\ GetRealTime = step

Main == pc["main"]
FramePcs == {"m_gui", "m_loading", "m_deleting"}

\* C22 -- Render-loop frame cap, as claimed: a frame starts only when at
\* least 1/freq has passed since lastTime, lastTime is recorded after the
\* frame's work, and an iteration without a frame sleeps for the rest of the
\* period.
C22_ClaimedFrame ==
  [][/\ (Main = "m_while" /\ Main' = "m_gui")
          => GetWallTime - mLastTime >= FramePeriod
     /\ (Main = "m_deleting" /\ Main' # "m_deleting")
          => mLastTime' = GetWallTime
     /\ (Main = "m_while" /\ Main' = "m_sleep")
          => wakeAt'["main"] =
               SleepUntil(FramePeriod - (GetWallTime - mLastTime))]_vars

\* C22 (amended) -- a frame starts only when more than 1/freq has passed
\* since lastTime, and lastTime is recorded when the frame starts, before its
\* work, and nowhere else; the collaborator calls of a frame are made only in
\* such an iteration; after the frame's work the loop sleeps for what is left
\* of the period; an iteration without a frame makes no collaborator call and
\* sleeps for the rest of the period; every sleep lasts at least as long as
\* requested.
C22_FrameCap ==
  [][/\ (Main = "m_while" /\ Main' = "m_gui")
          => (GetWallTime - mLastTime > FramePeriod /\ mLastTime' = GetWallTime)
     /\ (mLastTime' # mLastTime)
          => (Main \in {"idle", "m_while"} /\ Main' \in {"m_while", "m_gui"})
     /\ (Main' \in FramePcs /\ Main \notin FramePcs)
          => (Main \in {"m_while"} \cup CallPcs /\ Main' = "m_gui")
     /\ (Main = "m_while" /\ Main' = "m_sleep")
          => /\ GetWallTime - mLastTime <= FramePeriod
             /\ wakeAt'["main"] =
                  SleepUntil(FramePeriod - (GetWallTime - mLastTime))
     /\ (Main = "m_deleting" /\ Main' = "m_sleep")
          => /\ mCurrTime - mLastTime < FramePeriod
             /\ wakeAt'["main"] =
                  SleepUntil(FramePeriod - (mCurrTime - mLastTime))
     /\ (Main = "m_deleting" /\ Main' = "m_while")
          => mCurrTime - mLastTime >= FramePeriod
     /\ (Main = "m_sleep" /\ Main' # "m_sleep")
          => (Main' = "m_while" /\ wall' >= wakeAt["main"])]_vars
\* the loop sleeps to the frame boundary after a frame whose work took time
C22_Witness ==
  /\ Main = "m_sleep" /\ wakeAt["main"] > wall /\ updates >= 1
  /\ mLastTime >= WallAtStart /\ wall > mLastTime

\* C23 -- Exactly once per cycle: in every iteration that has started,
\* World::Update completes exactly once, then the loop sleeps exactly once,
\* then World::UpdateSimulationIface completes exactly once, and only then
\* the timeout is tested; nothing is repeated, also in the iteration that
\* ends by the timeout or after a SetUserQuit.
BeforeUpdate == {"p_isPaused", "p_getStepInc", "p_userStepped", "p_update"}
BeforeIface == {"p_rate", "p_diff", "p_sleep", "p_iface"}
C24_QuitBounded ==
  /\ [](updates \in {iters - 1, iters})
  /\ [][userQuit =>
          /\ iters' = iters
          /\ ~(Phys = "p_while" /\ pc'["physics"] = "p_isPaused")
          /\ ~(Main = "m_while" /\ pc'["main"] = "m_gui")]_vars
\* quit was requested while an Update and a frame were in progress
C24_Witness ==
  /\ userQuit /\ timeout = NoTimeout
  /\ Phys = "p_update" /\ worldMid /\ Main = "m_loading"

\* C25 -- No step request is lost: physicsThread's own SetStepInc(false) at
\* the end of a stepped iteration never clears a request that the primary
\* thread made with SetStepInc(true) while quit was not requested and that no
\* decision of the loop has turned into an advance of simTime since.
C25_NoRequestLost ==
  [][(Phys = "SetStepInc" /\ pc'["physics"] = "p_stepped" /\ ~userQuit)
       => ~hist.req]_vars

\* C26 -- Pause notifications mirror the flag: the values delivered to the
\* pause observers alternate, starting with TRUE, and whenever no SetPaused
\* call is between its notification and its store, pause equals the last
\* value delivered (FALSE before the first delivery).
C26_SignalMirrorsFlag ==
  /\ []((\A t \in Threads : pc[t] # "SetPaused_assign")
          => pause = pauseSignal.last)
  /\ [][pauseSignal' # pauseSignal
          => /\ pauseSignal'.last # pauseSignal.last
             /\ pauseSignal.n = 0 => pauseSignal'.last]_vars
\* physicsThread has paused the simulation after a step and its observers
\* were told TRUE, an odd-numbered delivery
C26_Witness ==
  /\ pauseSignal = [last |-> TRUE, n |-> 1] /\ pause
  /\ Phys = "p_while" /\ userStepped /\ updates >= 1

\* C27 -- userQuit is monotone: no step sets it back to FALSE; and once it is
\* true a thread that is outside a render frame or a physics iteration does
\* not enter one, so a MainLoop call made after it returns without a frame
\* and without a World::Update.
OutsideFrame == {"idle", "m_while", "m_join"}
OutsideIteration == {"none", "p_init", "p_while", "done"}
====
